---- MODULE Spec2Model ----
(***************************************************************************)
(* Model of the incremental candle chain (KLineList) and stroke list       *)
(* (BiList) of forex24/ai_chan.                                            *)
(*                                                                         *)
(* Candle handles: BiList and Bi address candles through arena handles     *)
(* that the code derives from KLine.idx (bi.rs:198-199, bi_list.rs:88,     *)
(* 217, 295).  A handle is therefore modelled as the candle's idx, and the *)
(* candle with handle h is klines[h + 1].  Prices are small integers.      *)
(***************************************************************************)
EXTENDS Integers, Sequences, FiniteSets, TLC

VARIABLES klines, nklu, bi_list, arena, free_klc_lst, last_end,
          bi_allow_sub_peak, step_calculation, ret,
          seg_list, seg_bs_point_lst, bs_point_lst,
          bs_point_history, seg_bs_point_history

vars == <<klines, nklu, bi_list, arena, free_klc_lst, last_end,
          bi_allow_sub_peak, step_calculation, ret,
          seg_list, seg_bs_point_lst, bs_point_lst,
          bs_point_history, seg_bs_point_history>>

\* ---------------------------------------------------------------- bounds
MaxBars == 7
MaxPrice == 3
MaxSetBars == 6
MaxSetPrice == 2
MaxRawPrice == 2
MaxTime == 2
MaxTimeBars == 5
MaxTimePrice == 2
MaxCal == 2
MaxArena == 4
MaxEditBars == 6
MaxFxBars == 5
MaxTestBars == 3

\* ------------------------------------------------------------- constants
NoIdx == -1
COMMON_ERROR == 1
BI_ERR == 9
PARA_ERROR == 5
CHAN_ERR_BEGIN == 0
CHAN_ERR_END == 99
KL_ERR_BEGIN == 200
KL_ERR_END == 299

\* Bars of the price claims.  No operation of the stroke list reads a time,
\* and add_single_klu accepts any: these bars all carry the same one.
Bars == {b \in [high : 1..MaxPrice, low : 1..MaxPrice, time : {0}] :
            b.low <= b.high}

Max2(a, b) == IF a >= b THEN a ELSE b
Min2(a, b) == IF a <= b THEN a ELSE b

Ok(v) == [val |-> v, err |-> 0]
Err(c) == [val |-> FALSE, err |-> c]

\* KLineUnit::new: the fields are extracted from the dict and stored as they
\* are; no comparison of high with low and no sign test is made.
KLineUnit_new(time, high, low) ==
    Ok([high |-> high, low |-> low, time |-> time])

\* ------------------------------------------------------------ candle chain
KLineNew(klu, idx, dir) ==
    [idx |-> idx, dir |-> dir, fx |-> "Unknown",
     high |-> klu.high, low |-> klu.low,
     time_begin |-> klu.time, time_end |-> klu.time,
     pre_kl |-> NoIdx, next_kl |-> NoIdx]

\* Arena lookup of a candle handle.
HasKl(kl, h) == h \in 0..(Len(kl) - 1)
GetKl(kl, h) == kl[h + 1]

add_unit(k, unit) ==
    [k EXCEPT !.high = Max2(k.high, unit.high),
              !.low = Min2(k.low, unit.low),
              !.time_end = unit.time]

\* Inclusion test of the merge rule: "Combine" when one range contains the
\* other, otherwise the direction of the new candle.
test_combine(k, unit) ==
    IF (k.high >= unit.high /\ k.low <= unit.low)
       \/ (unit.high >= k.high /\ unit.low <= k.low)
    THEN "Combine"
    ELSE IF unit.high > k.high THEN "Up" ELSE "Down"

update_fx(a, m, n) ==
    IF m.high > a.high /\ m.high > n.high THEN "Top"
    ELSE IF m.low < a.low /\ m.low < n.low THEN "Bottom"
    ELSE "Unknown"

\* max / min with the high / low of the candle behind handle h, where a
\* missing candle stands for -infinity / +infinity.
MaxHigh(kl, h, x) == IF HasKl(kl, h) THEN Max2(GetKl(kl, h).high, x) ELSE x
MinLow(kl, h, x) == IF HasKl(kl, h) THEN Min2(GetKl(kl, h).low, x) ELSE x

FxCheckMethod == {"Strict", "Loss", "Half", "Totally"}

\* check_fx_valid whose Loss method compares with the bounds of Strict.
check_fx_valid_LossAsStrict(self, item2, method, for_virtual, kl) ==
    IF self.next_kl = NoIdx \/ item2.pre_kl = NoIdx \/ self.pre_kl = NoIdx
    THEN Err(COMMON_ERROR)
    ELSE IF item2.idx <= self.idx THEN Err(COMMON_ERROR)
    ELSE IF self.fx = "Top"
    THEN IF ~for_virtual /\ item2.fx # "Bottom" THEN Ok(FALSE)
         ELSE IF for_virtual /\ item2.dir # "Down" THEN Ok(FALSE)
         ELSE
         LET item2_high ==
                 IF method = "Half"
                 THEN MaxHigh(kl, item2.pre_kl, item2.high)
                 ELSE IF for_virtual
                 THEN MaxHigh(kl, item2.pre_kl, item2.high)
                 ELSE MaxHigh(kl, item2.next_kl,
                              MaxHigh(kl, item2.pre_kl, item2.high))
             self_low ==
                 IF method = "Half" THEN MinLow(kl, self.next_kl, self.low)
                 ELSE MinLow(kl, self.next_kl,
                             MinLow(kl, self.pre_kl, self.low))
         IN  IF method = "Totally" THEN Ok(self.low > item2_high)
             ELSE Ok(self.high > item2_high /\ item2.low < self_low)
    ELSE IF self.fx = "Bottom"
    THEN IF ~for_virtual /\ item2.fx # "Top" THEN Ok(FALSE)
         ELSE IF for_virtual /\ item2.dir # "Up" THEN Ok(FALSE)
         ELSE
         LET item2_low ==
                 IF method = "Half"
                 THEN MinLow(kl, item2.pre_kl, item2.low)
                 ELSE IF for_virtual
                 THEN MinLow(kl, item2.pre_kl, item2.low)
                 ELSE MinLow(kl, item2.next_kl,
                             MinLow(kl, item2.pre_kl, item2.low))
             self_high ==
                 IF method = "Half" THEN MaxHigh(kl, self.next_kl, self.high)
                 ELSE MaxHigh(kl, self.next_kl,
                              MaxHigh(kl, self.pre_kl, self.high))
         IN  IF method = "Totally" THEN Ok(self.high < item2_low)
             ELSE Ok(self.low < item2_low /\ item2.high > self_high)
    ELSE Err(BI_ERR)

check_fx_valid(self, item2, method, for_virtual, kl) ==
    IF self.next_kl = NoIdx \/ item2.pre_kl = NoIdx \/ self.pre_kl = NoIdx
    THEN Err(COMMON_ERROR)
    ELSE IF item2.idx <= self.idx THEN Err(COMMON_ERROR)
    ELSE IF self.fx = "Top"
    THEN IF ~for_virtual /\ item2.fx # "Bottom" THEN Ok(FALSE)
         ELSE IF for_virtual /\ item2.dir # "Down" THEN Ok(FALSE)
         ELSE
         LET item2_high ==
                 IF method = "Half"
                 THEN MaxHigh(kl, item2.pre_kl, item2.high)
                 ELSE IF method = "Loss" THEN item2.high
                 ELSE IF for_virtual
                 THEN MaxHigh(kl, item2.pre_kl, item2.high)
                 ELSE MaxHigh(kl, item2.next_kl,
                              MaxHigh(kl, item2.pre_kl, item2.high))
             self_low ==
                 IF method = "Half" THEN MinLow(kl, self.next_kl, self.low)
                 ELSE IF method = "Loss" THEN self.low
                 ELSE MinLow(kl, self.next_kl,
                             MinLow(kl, self.pre_kl, self.low))
         IN  IF method = "Totally" THEN Ok(self.low > item2_high)
             ELSE Ok(self.high > item2_high /\ item2.low < self_low)
    ELSE IF self.fx = "Bottom"
    THEN IF ~for_virtual /\ item2.fx # "Top" THEN Ok(FALSE)
         ELSE IF for_virtual /\ item2.dir # "Up" THEN Ok(FALSE)
         ELSE
         LET item2_low ==
                 IF method = "Half"
                 THEN MinLow(kl, item2.pre_kl, item2.low)
                 ELSE IF method = "Loss" THEN item2.low
                 ELSE IF for_virtual
                 THEN MinLow(kl, item2.pre_kl, item2.low)
                 ELSE MinLow(kl, item2.next_kl,
                             MinLow(kl, item2.pre_kl, item2.low))
             self_high ==
                 IF method = "Half" THEN MaxHigh(kl, self.next_kl, self.high)
                 ELSE IF method = "Loss" THEN self.high
                 ELSE MaxHigh(kl, self.next_kl,
                              MaxHigh(kl, self.pre_kl, self.high))
         IN  IF method = "Totally" THEN Ok(self.high < item2_low)
             ELSE Ok(self.low < item2_low /\ item2.high > self_high)
    ELSE Err(BI_ERR)

\* ------------------------------------------------------------------- Bi
Bi_check(bi, kl) ==
    IF ~HasKl(kl, bi.begin_klc_idx) \/ ~HasKl(kl, bi.end_klc_idx)
    THEN COMMON_ERROR
    ELSE LET begin_klc == GetKl(kl, bi.begin_klc_idx)
             end_klc == GetKl(kl, bi.end_klc_idx)
         IN  IF bi.dir = "Down" /\ begin_klc.high <= end_klc.low THEN BI_ERR
             ELSE IF bi.dir = "Up" /\ begin_klc.low >= end_klc.high THEN BI_ERR
             ELSE 0

\* Bi::set assigns both handles first, then the direction, then checks; on
\* an error the fields already assigned keep their new values.
Bi_set(bi, begin_klc, end_klc, kl) ==
    LET b1 == [bi EXCEPT !.begin_klc_idx = begin_klc.idx,
                         !.end_klc_idx = end_klc.idx]
    IN  IF begin_klc.fx = "Unknown" THEN [bi |-> b1, err |-> BI_ERR]
        ELSE LET b2 == [b1 EXCEPT !.dir = IF begin_klc.fx = "Bottom"
                                          THEN "Up" ELSE "Down"]
             IN  [bi |-> b2, err |-> Bi_check(b2, kl)]

Bi_new(begin_klc, end_klc, idx, is_sure, kl) ==
    Bi_set([begin_klc_idx |-> 0, end_klc_idx |-> 0, dir |-> "Up",
            idx |-> idx, is_sure |-> is_sure, sure_end |-> <<>>,
            pre |-> NoIdx, next |-> NoIdx],
           begin_klc, end_klc, kl)

get_end_val(bi, kl) ==
    IF bi.dir = "Up" THEN GetKl(kl, bi.end_klc_idx).high
    ELSE GetKl(kl, bi.end_klc_idx).low

\* --------------------------------------------------------------- BiList
\* A BiList value b is [bi_list, arena, free_klc_lst, last_end]; a stroke
\* handle h addresses b.arena[h + 1].  Every operation returns the BiList
\* it leaves behind together with its PyResult<bool>.
Res(b, r) == [b |-> b, val |-> r.val, err |-> r.err]

GetBi(b, h) == b.arena[h + 1]
LastBi(b) == GetBi(b, b.bi_list[Len(b.bi_list)])

RECURSIVE WalkNext(_, _, _, _)
WalkNext(kl, current, begin_klc, end_klc) ==
    IF ~(current.idx < end_klc.idx) THEN Ok(TRUE)
    ELSE IF ~HasKl(kl, current.next_kl) THEN Err(COMMON_ERROR)
    ELSE LET next == GetKl(kl, current.next_kl)
         IN  IF next.fx # "Unknown" /\ next.fx # begin_klc.fx
                /\ next.fx # end_klc.fx
             THEN Ok(FALSE)
             ELSE WalkNext(kl, next, begin_klc, end_klc)

\* can_make_bi without the test of the price order.
can_make_bi_NoPrice(kl, begin_klc, end_klc) ==
    IF begin_klc.fx = "Unknown" \/ end_klc.fx = "Unknown" THEN Ok(FALSE)
    ELSE IF begin_klc.fx = end_klc.fx THEN Ok(FALSE)
    ELSE WalkNext(kl, begin_klc, begin_klc, end_klc)

can_make_bi(kl, begin_klc, end_klc) ==
    IF begin_klc.fx = "Unknown" \/ end_klc.fx = "Unknown" THEN Ok(FALSE)
    ELSE IF begin_klc.fx = end_klc.fx THEN Ok(FALSE)
    ELSE LET w == WalkNext(kl, begin_klc, begin_klc, end_klc)
         IN  IF w.err # 0 \/ ~w.val THEN w
             ELSE IF begin_klc.fx = "Bottom" /\ end_klc.high <= begin_klc.low
                  THEN Ok(FALSE)
             ELSE IF begin_klc.fx = "Top" /\ end_klc.low >= begin_klc.high
                  THEN Ok(FALSE)
             ELSE Ok(TRUE)

RECURSIVE PeakWalk(_, _, _, _)
PeakWalk(kl, h, cur_end, fx) ==
    IF ~HasKl(kl, h) THEN Err(COMMON_ERROR)
    ELSE LET klc == GetKl(kl, h)
         IN  IF ~(klc.idx < cur_end.idx) THEN Ok(TRUE)
             ELSE IF fx = "Bottom" /\ klc.high > cur_end.high THEN Ok(FALSE)
             ELSE IF fx = "Top" /\ klc.low < cur_end.low THEN Ok(FALSE)
             ELSE PeakWalk(kl, klc.next_kl, cur_end, fx)

end_is_peak(last_end_klc, cur_end, kl) ==
    IF last_end_klc.fx = "Unknown" THEN Ok(TRUE)
    ELSE PeakWalk(kl, last_end_klc.next_kl, cur_end, last_end_klc.fx)

\* Common body of add_new_bi and add_virtual_bi.
AppendBi(b, kl, begin_klc_idx, end_klc_idx, is_sure) ==
    IF ~HasKl(kl, begin_klc_idx) \/ ~HasKl(kl, end_klc_idx)
    THEN Res(b, Err(COMMON_ERROR))
    ELSE LET n == Bi_new(GetKl(kl, begin_klc_idx), GetKl(kl, end_klc_idx),
                         Len(b.bi_list), is_sure, kl)
             bi_idx == Len(b.arena)
         IN  IF n.err # 0 THEN Res(b, Err(n.err))
             ELSE IF b.bi_list = <<>>
             THEN Res([b EXCEPT !.arena = Append(@, n.bi),
                                !.bi_list = Append(@, bi_idx)], Ok(TRUE))
             ELSE LET last_bi_idx == b.bi_list[Len(b.bi_list)]
                      linked == [n.bi EXCEPT !.pre = last_bi_idx]
                  IN  Res([b EXCEPT
                             !.arena = Append([@ EXCEPT
                                 ![last_bi_idx + 1].next = bi_idx], linked),
                             !.bi_list = Append(@, bi_idx)], Ok(TRUE))

add_new_bi(b, kl, begin_klc_idx, end_klc_idx) ==
    AppendBi(b, kl, begin_klc_idx, end_klc_idx, TRUE)

\* add_virtual_bi that moves the end of the last stroke to the candle
\* instead of appending an unconfirmed stroke.
add_virtual_bi_MoveEnd(b, kl, begin_klc_idx, end_klc_idx) ==
    LET last_bi_idx == b.bi_list[Len(b.bi_list)]
    IN  Res([b EXCEPT !.arena[last_bi_idx + 1].end_klc_idx = end_klc_idx,
                      !.arena[last_bi_idx + 1].is_sure = FALSE], Ok(TRUE))

add_virtual_bi(b, kl, begin_klc_idx, end_klc_idx) ==
    AppendBi(b, kl, begin_klc_idx, end_klc_idx, FALSE)

RECURSIVE FirstBiLoop(_, _, _, _)
FirstBiLoop(b, kl, klc, i) ==
    IF i > Len(b.free_klc_lst)
    THEN Res([b EXCEPT !.free_klc_lst = Append(@, klc.idx),
                       !.last_end = klc.idx], Ok(FALSE))
    ELSE LET exist_free_klc_idx == b.free_klc_lst[i]
         IN  IF ~HasKl(kl, exist_free_klc_idx)
             THEN FirstBiLoop(b, kl, klc, i + 1)
             ELSE LET exist_free_klc == GetKl(kl, exist_free_klc_idx)
                      c == can_make_bi(kl, klc, exist_free_klc)
                  IN  IF exist_free_klc.fx = klc.fx
                      THEN FirstBiLoop(b, kl, klc, i + 1)
                      ELSE IF c.err # 0 THEN Res(b, c)
                      ELSE IF c.val
                      THEN LET a == add_new_bi(b, kl, exist_free_klc_idx,
                                               klc.idx)
                           IN  IF a.err # 0 THEN a
                               ELSE Res([a.b EXCEPT !.last_end = klc.idx],
                                        Ok(TRUE))
                      ELSE FirstBiLoop(b, kl, klc, i + 1)

\* try_create_first_bi that forgets to buffer a candle that made no stroke.
try_create_first_bi_NoBuffer(b, kl, klc) ==
    LET r == FirstBiLoop(b, kl, klc, 1)
    IN  IF r.err # 0 \/ r.val THEN r
        ELSE Res([b EXCEPT !.last_end = klc.idx], Ok(FALSE))

try_create_first_bi(b, kl, klc) == FirstBiLoop(b, kl, klc, 1)

can_update_peak(b, kl, klc, allow_sub_peak) ==
    IF allow_sub_peak \/ Len(b.bi_list) < 2 THEN Ok(FALSE)
    ELSE LET last_bi == LastBi(b)
         IN  IF ~HasKl(kl, last_bi.begin_klc_idx) THEN Err(COMMON_ERROR)
             ELSE
             LET last_begin_klc == GetKl(kl, last_bi.begin_klc_idx)
                 p == end_is_peak(last_begin_klc, klc, kl)
                 second_last_bi == GetBi(b, b.bi_list[Len(b.bi_list) - 1])
             IN  IF last_bi.dir = "Down" /\ klc.high < last_begin_klc.high
                 THEN Ok(FALSE)
                 ELSE IF last_bi.dir = "Up" /\ klc.low > last_begin_klc.low
                 THEN Ok(FALSE)
                 ELSE IF p.err # 0 \/ ~p.val THEN p
                 ELSE IF ~HasKl(kl, second_last_bi.begin_klc_idx)
                 THEN Err(COMMON_ERROR)
                 ELSE
                 LET second_last_begin_klc ==
                         GetKl(kl, second_last_bi.begin_klc_idx)
                 IN  IF last_bi.dir = "Down"
                        /\ get_end_val(last_bi, kl) < second_last_begin_klc.low
                     THEN Ok(FALSE)
                     ELSE IF last_bi.dir = "Up"
                        /\ get_end_val(last_bi, kl) > second_last_begin_klc.high
                     THEN Ok(FALSE)
                     ELSE Ok(TRUE)

\* update_bi_sure that confirms the last stroke without recording its end
\* in sure_end.
update_bi_sure_NoSureEnd(b, kl, klc, allow_sub_peak) ==
    IF b.bi_list = <<>> THEN Res(b, Ok(FALSE))
    ELSE LET last_bi_idx == b.bi_list[Len(b.bi_list)]
             last_bi == GetBi(b, last_bi_idx)
         IN  IF last_bi.is_sure THEN Res(b, Ok(FALSE))
             ELSE IF ~HasKl(kl, last_bi.end_klc_idx)
             THEN Res(b, Err(COMMON_ERROR))
             ELSE
             LET last_end_klc == GetKl(kl, last_bi.end_klc_idx)
             IN  IF last_end_klc.fx = klc.fx
                 THEN LET p == can_update_peak(b, kl, klc, allow_sub_peak)
                      IN  IF p.err # 0 \/ ~p.val THEN Res(b, p)
                          ELSE LET s == Bi_set(last_bi,
                                          GetKl(kl, last_bi.begin_klc_idx),
                                          klc, kl)
                               IN  Res([b EXCEPT
                                          !.arena[last_bi_idx + 1] = s.bi],
                                       IF s.err # 0 THEN Err(s.err)
                                       ELSE Ok(TRUE))
                 ELSE LET c == can_make_bi(kl, last_end_klc, klc)
                      IN  IF c.err # 0 \/ ~c.val THEN Res(b, c)
                          ELSE LET sure == [b EXCEPT
                                     !.arena[last_bi_idx + 1].is_sure = TRUE]
                               IN  add_new_bi(sure, kl, last_end_klc.idx,
                                              klc.idx)

update_bi_sure(b, kl, klc, allow_sub_peak) ==
    IF b.bi_list = <<>> THEN Res(b, Ok(FALSE))
    ELSE LET last_bi_idx == b.bi_list[Len(b.bi_list)]
             last_bi == GetBi(b, last_bi_idx)
         IN  IF last_bi.is_sure THEN Res(b, Ok(FALSE))
             ELSE IF ~HasKl(kl, last_bi.end_klc_idx)
             THEN Res(b, Err(COMMON_ERROR))
             ELSE
             LET last_end_klc == GetKl(kl, last_bi.end_klc_idx)
             IN  IF last_end_klc.fx = klc.fx
                 THEN LET p == can_update_peak(b, kl, klc, allow_sub_peak)
                      IN  IF p.err # 0 \/ ~p.val THEN Res(b, p)
                          ELSE LET s == Bi_set(last_bi,
                                          GetKl(kl, last_bi.begin_klc_idx),
                                          klc, kl)
                               IN  Res([b EXCEPT
                                          !.arena[last_bi_idx + 1] = s.bi],
                                       IF s.err # 0 THEN Err(s.err)
                                       ELSE Ok(TRUE))
                 ELSE LET c == can_make_bi(kl, last_end_klc, klc)
                      IN  IF c.err # 0 \/ ~c.val THEN Res(b, c)
                          ELSE LET sure == [b EXCEPT
                                     !.arena[last_bi_idx + 1].is_sure = TRUE,
                                     !.arena[last_bi_idx + 1].sure_end =
                                         Append(@, last_bi.end_klc_idx)]
                               IN  add_new_bi(sure, kl, last_end_klc.idx,
                                              klc.idx)

\* try_add_virtual_bi without the test that the last stroke is confirmed.
try_add_virtual_bi_NoSureTest(b, kl, last_klc) ==
    IF b.bi_list = <<>> THEN Res(b, Ok(FALSE))
    ELSE LET last_bi == LastBi(b)
         IN  IF ~HasKl(kl, last_bi.end_klc_idx)
             THEN Res(b, Err(COMMON_ERROR))
             ELSE
             LET last_end_klc == GetKl(kl, last_bi.end_klc_idx)
                 c == can_make_bi(kl, last_end_klc, last_klc)
             IN  IF last_end_klc.fx = "Unknown" THEN Res(b, Ok(FALSE))
                 ELSE IF c.err # 0 \/ ~c.val THEN Res(b, c)
                 ELSE add_virtual_bi(b, kl, last_end_klc.idx, last_klc.idx)

try_add_virtual_bi(b, kl, last_klc) ==
    IF b.bi_list = <<>> THEN Res(b, Ok(FALSE))
    ELSE LET last_bi == LastBi(b)
         IN  IF ~last_bi.is_sure THEN Res(b, Ok(FALSE))
             ELSE IF ~HasKl(kl, last_bi.end_klc_idx)
             THEN Res(b, Err(COMMON_ERROR))
             ELSE
             LET last_end_klc == GetKl(kl, last_bi.end_klc_idx)
                 c == can_make_bi(kl, last_end_klc, last_klc)
             IN  IF last_end_klc.fx = "Unknown" THEN Res(b, Ok(FALSE))
                 ELSE IF c.err # 0 \/ ~c.val THEN Res(b, c)
                 ELSE add_virtual_bi(b, kl, last_end_klc.idx, last_klc.idx)

\* update_bi that reports only the flag of update_bi_sure.
update_bi_SureFlagOnly(b, kl, klc, last_klc, cal_virtual, allow_sub_peak) ==
    LET r1 == update_bi_sure(b, kl, klc, allow_sub_peak)
    IN  IF r1.err # 0 THEN r1
        ELSE IF cal_virtual
        THEN LET r2 == try_add_virtual_bi(r1.b, kl, last_klc)
             IN  IF r2.err # 0 THEN r2
                 ELSE Res(r2.b, Ok(r1.val))
        ELSE r1

update_bi(b, kl, klc, last_klc, cal_virtual, allow_sub_peak) ==
    LET r1 == update_bi_sure(b, kl, klc, allow_sub_peak)
    IN  IF r1.err # 0 THEN r1
        ELSE IF cal_virtual
        THEN LET r2 == try_add_virtual_bi(r1.b, kl, last_klc)
             IN  IF r2.err # 0 THEN r2
                 ELSE Res(r2.b, Ok(r1.val \/ r2.val))
        ELSE r1

\* Arena::remove leaves a vacant slot: Removed stands in the slot of a
\* stroke taken out of the arena, and arena.get on its handle gives None.
\* Arena::insert is modelled as taking a fresh slot at the end, so a handle
\* never addresses two strokes.
Removed == [removed |-> TRUE]

ArenaGet(a, h) == h \in 0..(Len(a) - 1) /\ a[h + 1] # Removed

ArenaRemove(a, h) == IF ArenaGet(a, h) THEN [a EXCEPT ![h + 1] = Removed]
                     ELSE a

get_bi(b, idx) ==
    IF idx >= Len(b.bi_list) THEN Err(COMMON_ERROR)
    ELSE IF ~ArenaGet(b.arena, b.bi_list[idx + 1]) THEN Err(COMMON_ERROR)
    ELSE Ok(GetBi(b, b.bi_list[idx + 1]))

\* get_pre_bi / get_next_bi: the stroke behind the link, or None (FALSE).
get_pre_bi(b, bi_idx) ==
    IF ArenaGet(b.arena, bi_idx) /\ ArenaGet(b.arena, GetBi(b, bi_idx).pre)
    THEN Ok(GetBi(b, GetBi(b, bi_idx).pre))
    ELSE Err(NoIdx)

get_next_bi(b, bi_idx) ==
    IF ArenaGet(b.arena, bi_idx) /\ ArenaGet(b.arena, GetBi(b, bi_idx).next)
    THEN Ok(GetBi(b, GetBi(b, bi_idx).next))
    ELSE Err(NoIdx)

\* "Update connections" of merge_bi and split_bi: the stroke before old_pre
\* gets next = new_pre and the stroke after old_next gets pre = new_next.
\* The code addresses each neighbour by its idx field (arena.get_mut(
\* pre_bi.idx)), that is, the arena slot whose number is that idx.
Relink(b, a, old_pre, old_next, new_pre, new_next) ==
    LET p == get_pre_bi(b, old_pre)
        a1 == IF p.err = 0 /\ ArenaGet(a, p.val.idx)
              THEN [a EXCEPT ![p.val.idx + 1].next = new_pre] ELSE a
        n == get_next_bi(b, old_next)
    IN  IF n.err = 0 /\ ArenaGet(a1, n.val.idx)
        THEN [a1 EXCEPT ![n.val.idx + 1].pre = new_next] ELSE a1

\* The sequence with positions from + 1 .. to + 1 replaced by repl
\* (Vec::splice(from..=to, repl)).
Splice(s, from, to, repl) ==
    SubSeq(s, 1, from) \o repl \o SubSeq(s, to + 2, Len(s))

\* merge_bi that skips the comparison of the two directions.
merge_bi_AnyDir(b, kl, idx1, idx2) ==
    IF idx1 >= Len(b.bi_list) \/ idx2 >= Len(b.bi_list)
    THEN Res(b, Err(COMMON_ERROR))
    ELSE
    LET g1 == get_bi(b, idx1)
        g2 == get_bi(b, idx2)
    IN  IF g1.err # 0 THEN Res(b, g1)
        ELSE IF g2.err # 0 THEN Res(b, g2)
        ELSE
        LET n == Bi_new(GetKl(kl, g1.val.begin_klc_idx),
                        GetKl(kl, g2.val.end_klc_idx), idx1, TRUE, kl)
            new_bi_idx == Len(b.arena)
            a1 == Relink(b, Append(b.arena, n.bi), b.bi_list[idx1 + 1],
                         b.bi_list[idx2 + 1], new_bi_idx, new_bi_idx)
            a2 == ArenaRemove(ArenaRemove(a1, b.bi_list[idx1 + 1]),
                              b.bi_list[idx2 + 1])
        IN  IF n.err # 0 THEN Res(b, Err(n.err))
            ELSE Res([b EXCEPT !.arena = a2,
                               !.bi_list = Splice(@, idx1, idx2,
                                                  <<new_bi_idx>>)],
                     Ok(TRUE))

merge_bi(b, kl, idx1, idx2) ==
    IF idx1 >= Len(b.bi_list) \/ idx2 >= Len(b.bi_list)
    THEN Res(b, Err(COMMON_ERROR))
    ELSE
    LET g1 == get_bi(b, idx1)
        g2 == get_bi(b, idx2)
    IN  IF g1.err # 0 THEN Res(b, g1)
        ELSE IF g2.err # 0 THEN Res(b, g2)
        ELSE IF g1.val.dir # g2.val.dir THEN Res(b, Err(BI_ERR))
        ELSE
        LET n == Bi_new(GetKl(kl, g1.val.begin_klc_idx),
                        GetKl(kl, g2.val.end_klc_idx), idx1, TRUE, kl)
            new_bi_idx == Len(b.arena)
            a1 == Relink(b, Append(b.arena, n.bi), b.bi_list[idx1 + 1],
                         b.bi_list[idx2 + 1], new_bi_idx, new_bi_idx)
            a2 == ArenaRemove(ArenaRemove(a1, b.bi_list[idx1 + 1]),
                              b.bi_list[idx2 + 1])
        IN  IF n.err # 0 THEN Res(b, Err(n.err))
            ELSE Res([b EXCEPT !.arena = a2,
                               !.bi_list = Splice(@, idx1, idx2,
                                                  <<new_bi_idx>>)],
                     Ok(TRUE))

split_bi(b, kl, bi_idx, split_klc_idx) ==
    LET g == get_bi(b, bi_idx)
    IN  IF g.err # 0 THEN Res(b, g)
        ELSE IF ~HasKl(kl, split_klc_idx) THEN Res(b, Err(COMMON_ERROR))
        ELSE
        LET split_klc == GetKl(kl, split_klc_idx)
            bi1 == Bi_new(GetKl(kl, g.val.begin_klc_idx), split_klc,
                          bi_idx, TRUE, kl)
            bi2 == Bi_new(split_klc, GetKl(kl, g.val.end_klc_idx),
                          bi_idx + 1, TRUE, kl)
            bi1_idx == Len(b.arena)
            bi2_idx == Len(b.arena) + 1
            a1 == Relink(b, Append(Append(b.arena, bi1.bi), bi2.bi),
                         b.bi_list[bi_idx + 1], b.bi_list[bi_idx + 1],
                         bi1_idx, bi2_idx)
            a2 == ArenaRemove(a1, b.bi_list[bi_idx + 1])
        IN  IF bi1.err # 0 THEN Res(b, Err(bi1.err))
            ELSE IF bi2.err # 0 THEN Res(b, Err(bi2.err))
            ELSE Res([b EXCEPT !.arena = a2,
                               !.bi_list = Splice(@, bi_idx, bi_idx,
                                                  <<bi1_idx, bi2_idx>>)],
                     Ok(TRUE))

\* ------------------------------------------------------------ KLineList
\* try_add that never merges: every bar opens a candle.
try_add_NeverCombine(k, unit) ==
    [dir |-> IF unit.high > k.high THEN "Up" ELSE "Down", kl |-> k]

\* try_add: the inclusion test and, on "Combine", the merge of the bar
\* into the tail candle.
try_add(k, unit) ==
    LET dir == test_combine(k, unit)
    IN  [dir |-> dir, kl |-> IF dir = "Combine" THEN add_unit(k, unit) ELSE k]

\* The push that links the tail forward to the new candle but leaves the
\* new candle without its link back.
PushKLine_NoBackLink(kl, klu, dir) ==
    LET n == Len(kl)
        linked == Append([kl EXCEPT ![n].next_kl = n], KLineNew(klu, n, dir))
    IN  IF n + 1 >= 3
        THEN [linked EXCEPT ![n].fx = update_fx(linked[n - 1], linked[n],
                                                linked[n + 1])]
        ELSE linked

\* PushKLine that gives the fractal to the newest candle instead of the
\* middle one of the last three.
PushKLine_TagNewest(kl, klu, dir) ==
    LET n == Len(kl)
        linked == Append([kl EXCEPT ![n].next_kl = n],
                         [KLineNew(klu, n, dir) EXCEPT !.pre_kl = n - 1])
    IN  IF n + 1 >= 3
        THEN [linked EXCEPT ![n + 1].fx = update_fx(linked[n - 1], linked[n],
                                                    linked[n + 1])]
        ELSE linked

\* Chain after a new candle for bar klu with direction dir is linked behind
\* the tail and the middle of the last three candles got its fractal.
PushKLine(kl, klu, dir) ==
    LET n == Len(kl)
        linked == Append([kl EXCEPT ![n].next_kl = n],
                         [KLineNew(klu, n, dir) EXCEPT !.pre_kl = n - 1])
    IN  IF n + 1 >= 3
        THEN [linked EXCEPT ![n].fx = update_fx(linked[n - 1], linked[n],
                                                linked[n + 1])]
        ELSE linked

\* BiConfig fields that no BiList operation reads; every run is the same
\* for each of their values, and they stand at the defaults of BiConfig::new.
bi_fx_check == "Half"
gap_as_kl == TRUE
bi_end_is_peak == TRUE

\* ---------------------------------------------------------------- state
\* The lists behind the stroke list.  Their element types (Seg, ZS, BSPoint)
\* and the functions that fill them are outside src/: each list is
\* represented by the number of times it was recomputed, seg_list standing
\* for the segment and pivot lists of both levels, and each history log by
\* the sequence of values recorded in it.
AN == [seg_list |-> seg_list, seg_bs_point_lst |-> seg_bs_point_lst,
       bs_point_lst |-> bs_point_lst, bs_point_history |-> bs_point_history,
       seg_bs_point_history |-> seg_bs_point_history]

SetAN(a) ==
    /\ seg_list' = a.seg_list
    /\ seg_bs_point_lst' = a.seg_bs_point_lst
    /\ bs_point_lst' = a.bs_point_lst
    /\ bs_point_history' = a.bs_point_history
    /\ seg_bs_point_history' = a.seg_bs_point_history

\* Stages of cal_seg_and_zs whose code is outside src/ and that may return
\* an error: 1 the segment and pivot computations, 2 seg_bs_point_lst.cal,
\* 3 bs_point_lst.cal, 4 record_current_bs_points; 0 stands for none.
FailAt == 0..4

record_current_bs_points(a) ==
    [a EXCEPT !.bs_point_history = Append(@, a.bs_point_lst),
              !.seg_bs_point_history = Append(@, a.seg_bs_point_lst)]

\* cal_seg_and_zs that records the buy/sell points before it recomputes
\* them.
cal_seg_and_zs_RecordFirst(b, kl, a, step, fail_at) ==
    LET v == IF step THEN Res(b, Ok(FALSE))
             ELSE IF kl = <<>> THEN Res(b, Err(COMMON_ERROR))
             ELSE try_add_virtual_bi(b, kl, kl[Len(kl)])
        a0 == record_current_bs_points(a)
        a1 == [a0 EXCEPT !.seg_list = @ + 1]
        a2 == [a1 EXCEPT !.seg_bs_point_lst = @ + 1]
        a3 == [a2 EXCEPT !.bs_point_lst = @ + 1]
    IN  IF v.err # 0 THEN [b |-> v.b, a |-> a, err |-> v.err]
        ELSE IF fail_at = 1 THEN [b |-> v.b, a |-> a, err |-> COMMON_ERROR]
        ELSE IF fail_at = 2 THEN [b |-> v.b, a |-> a1, err |-> COMMON_ERROR]
        ELSE IF fail_at = 3 THEN [b |-> v.b, a |-> a2, err |-> COMMON_ERROR]
        ELSE IF fail_at = 4 THEN [b |-> v.b, a |-> a3, err |-> COMMON_ERROR]
        ELSE [b |-> v.b, a |-> a3, err |-> 0]

\* KLineList::cal_seg_and_zs: outside step mode a virtual stroke is tried
\* on the tail candle; then the segment and pivot lists, seg_bs_point_lst
\* and bs_point_lst are recomputed in this order and the current buy/sell
\* points are recorded.  An error of a stage ends the run and keeps what the
\* earlier stages did.
cal_seg_and_zs(b, kl, a, step, fail_at) ==
    LET v == IF step THEN Res(b, Ok(FALSE))
             ELSE IF kl = <<>> THEN Res(b, Err(COMMON_ERROR))
             ELSE try_add_virtual_bi(b, kl, kl[Len(kl)])
        a1 == [a EXCEPT !.seg_list = @ + 1]
        a2 == [a1 EXCEPT !.seg_bs_point_lst = @ + 1]
        a3 == [a2 EXCEPT !.bs_point_lst = @ + 1]
    IN  IF v.err # 0 THEN [b |-> v.b, a |-> a, err |-> v.err]
        ELSE IF fail_at = 1 THEN [b |-> v.b, a |-> a, err |-> COMMON_ERROR]
        ELSE IF fail_at = 2 THEN [b |-> v.b, a |-> a1, err |-> COMMON_ERROR]
        ELSE IF fail_at = 3 THEN [b |-> v.b, a |-> a2, err |-> COMMON_ERROR]
        ELSE IF fail_at = 4 THEN [b |-> v.b, a |-> a3, err |-> COMMON_ERROR]
        ELSE [b |-> v.b, a |-> record_current_bs_points(a3), err |-> 0]

BL == [bi_list |-> bi_list, arena |-> arena,
       free_klc_lst |-> free_klc_lst, last_end |-> last_end]

SetBL(b) ==
    /\ bi_list' = b.bi_list
    /\ arena' = b.arena
    /\ free_klc_lst' = b.free_klc_lst
    /\ last_end' = b.last_end

Ret(op, r) == [op |-> op, val |-> r.val, err |-> r.err]

Init ==
    /\ klines = <<>>
    /\ nklu = 0
    /\ bi_list = <<>>
    /\ arena = <<>>
    /\ free_klc_lst = <<>>
    /\ last_end = NoIdx
    /\ bi_allow_sub_peak \in BOOLEAN
    /\ step_calculation = FALSE
    /\ ret = [op |-> "new", val |-> FALSE, err |-> 0]
    /\ seg_list = 0
    /\ seg_bs_point_lst = 0
    /\ bs_point_lst = 0
    /\ bs_point_history = <<>>
    /\ seg_bs_point_history = <<>>

\* KLineList::add_single_klu: the bar enters the unit arena; the first bar
\* opens candle 0; a bar outside the tail candle opens a new candle, the
\* middle of the last three candles gets its fractal and BiList::update_bi
\* runs on the last two candles; a bar in an inclusion relation with the
\* tail is merged into it and, in step mode, a virtual stroke is tried.
\* In step mode cal_seg_and_zs runs when the stroke list reported a change.
\* StepCal_NoStepTest runs it in either mode.
StepCal_NoStepTest(kl, r) ==
    IF r.err = 0 /\ r.val
    THEN \E fail_at \in FailAt :
            LET c == cal_seg_and_zs(r.b, kl, AN, step_calculation, fail_at)
            IN  /\ SetBL(c.b)
                /\ SetAN(c.a)
                /\ ret' = [op |-> "add_single_klu", val |-> r.val,
                           err |-> c.err]
    ELSE /\ SetBL(r.b)
         /\ ret' = Ret("add_single_klu", r)
         /\ UNCHANGED <<seg_list, seg_bs_point_lst, bs_point_lst,
                        bs_point_history, seg_bs_point_history>>

StepCal(kl, r) ==
    IF step_calculation /\ r.err = 0 /\ r.val
    THEN \E fail_at \in FailAt :
            LET c == cal_seg_and_zs(r.b, kl, AN, step_calculation, fail_at)
            IN  /\ SetBL(c.b)
                /\ SetAN(c.a)
                /\ ret' = [op |-> "add_single_klu", val |-> r.val,
                           err |-> c.err]
    ELSE /\ SetBL(r.b)
         /\ ret' = Ret("add_single_klu", r)
         /\ UNCHANGED <<seg_list, seg_bs_point_lst, bs_point_lst,
                        bs_point_history, seg_bs_point_history>>

add_single_klu(klu) ==
    /\ nklu < MaxBars
    /\ nklu' = nklu + 1
    /\ IF klines = <<>>
       THEN /\ klines' = <<KLineNew(klu, 0, "Up")>>
            /\ ret' = Ret("add_single_klu", Ok(FALSE))
            /\ UNCHANGED <<bi_list, arena, free_klc_lst, last_end,
                           seg_list, seg_bs_point_lst, bs_point_lst,
                           bs_point_history, seg_bs_point_history>>
       ELSE LET t == try_add(klines[Len(klines)], klu)
            IN  IF t.dir # "Combine"
                THEN LET kl == PushKLine(klines, klu, t.dir)
                         n == Len(kl)
                         r == update_bi(BL, kl, kl[n - 1], kl[n],
                                        step_calculation, bi_allow_sub_peak)
                     IN  /\ klines' = kl
                         /\ StepCal(kl, r)
                ELSE LET n == Len(klines)
                         kl == [klines EXCEPT ![n] = t.kl]
                         r == IF step_calculation
                              THEN try_add_virtual_bi(BL, kl, kl[n])
                              ELSE Res(BL, Ok(FALSE))
                     IN  /\ klines' = kl
                         /\ StepCal(kl, r)
    /\ UNCHANGED <<bi_allow_sub_peak, step_calculation>>

AddSingleKlu == \E klu \in Bars : add_single_klu(klu)

\* Direct calls of the public BiList operations, as the unit tests of
\* bi_list.rs make them.  The caller hands candles over in chain order: a
\* candle handed over is newer than every candle the BiList already holds.
\* update_bi and try_add_virtual_bi return false without a change on an empty
\* stroke list, so these two calls are made on a non-empty one.
RECURSIVE MaxOf(_)
MaxOf(S) == IF S = {} THEN NoIdx
            ELSE LET x == CHOOSE y \in S : TRUE
                 IN  Max2(x, MaxOf(S \ {x}))

Newest ==
    MaxOf({last_end} \cup {free_klc_lst[i] : i \in 1..Len(free_klc_lst)}
          \cup {arena[bi_list[i] + 1].end_klc_idx : i \in 1..Len(bi_list)})

Offerable == {i \in (Newest + 1)..(Len(klines) - 2) :
                 GetKl(klines, i).fx # "Unknown"}

TryCreateFirstBiCall ==
    \E i \in Offerable :
       /\ LET r == try_create_first_bi(BL, klines, GetKl(klines, i))
          IN  /\ SetBL(r.b)
              /\ ret' = Ret("try_create_first_bi", r)
       /\ UNCHANGED <<klines, nklu, bi_allow_sub_peak, step_calculation,
                      seg_list, seg_bs_point_lst, bs_point_lst,
                      bs_point_history, seg_bs_point_history>>

UpdateBiCall ==
    \E i \in Offerable, cal_virtual \in BOOLEAN :
       /\ bi_list # <<>>
       /\ LET r == update_bi(BL, klines, GetKl(klines, i),
                             GetKl(klines, i + 1), cal_virtual,
                             bi_allow_sub_peak)
          IN  /\ SetBL(r.b)
              /\ ret' = Ret("update_bi", r)
       /\ UNCHANGED <<klines, nklu, bi_allow_sub_peak, step_calculation,
                      seg_list, seg_bs_point_lst, bs_point_lst,
                      bs_point_history, seg_bs_point_history>>

TryAddVirtualBiCall ==
    \E i \in Offerable :
       /\ bi_list # <<>>
       /\ LET r == try_add_virtual_bi(BL, klines, GetKl(klines, i))
          IN  /\ SetBL(r.b)
              /\ ret' = Ret("try_add_virtual_bi", r)
       /\ UNCHANGED <<klines, nklu, bi_allow_sub_peak, step_calculation,
                      seg_list, seg_bs_point_lst, bs_point_lst,
                      bs_point_history, seg_bs_point_history>>

\* Bi::set called on the last stroke of the list through get_bi_mut, with
\* any candle of the chain as begin and any fractal candle as end.  As in
\* update_bi_sure and add_virtual_bi, the stroke that is set is one not yet
\* confirmed.  The stroke keeps whatever Bi::set assigned, also when it
\* returns an error.
BiSetCall ==
    \E g \in 0..(Len(klines) - 1), h \in 0..(Len(klines) - 2) :
       /\ GetKl(klines, h).fx # "Unknown"
       /\ bi_list # <<>>
       /\ ~LastBi(BL).is_sure
       /\ LET last_bi_idx == bi_list[Len(bi_list)]
              s == Bi_set(arena[last_bi_idx + 1], GetKl(klines, g),
                          GetKl(klines, h), klines)
          IN  /\ arena' = [arena EXCEPT ![last_bi_idx + 1] = s.bi]
              /\ ret' = [op |-> "set", val |-> FALSE, err |-> s.err]
       /\ UNCHANGED <<klines, nklu, bi_list, free_klc_lst, last_end,
                      bi_allow_sub_peak, step_calculation,
                      seg_list, seg_bs_point_lst, bs_point_lst,
                      bs_point_history, seg_bs_point_history>>

Next == AddSingleKlu \/ TryCreateFirstBiCall \/ UpdateBiCall
        \/ TryAddVirtualBiCall

Spec == Init /\ [][Next]_vars

\* The public operations together with direct Bi::set calls.
\* The same push, fed a shorter run of bars from a narrower price range.
AddSingleKluShort ==
    /\ nklu < MaxSetBars
    /\ \E klu \in {b \in Bars : b.high <= MaxSetPrice} : add_single_klu(klu)

NextBiSet == AddSingleKluShort \/ TryCreateFirstBiCall \/ TryAddVirtualBiCall
             \/ BiSetCall

SpecBiSet == Init /\ [][NextBiSet]_vars

\* A bar built by KLineUnit::new from any pair of prices, zero included and
\* high below low included, and pushed.
AddRawKlu ==
    \E high \in 0..MaxRawPrice, low \in 0..MaxRawPrice :
       LET u == KLineUnit_new(0, high, low)
       IN  u.err = 0 /\ add_single_klu(u.val)

SpecRaw == Init /\ [][AddRawKlu]_vars

\* cal_seg_and_zs called by the consumer, a bounded number of times.
CalSegAndZs ==
    \E fail_at \in FailAt :
       /\ seg_list < MaxCal
       /\ LET c == cal_seg_and_zs(BL, klines, AN, step_calculation, fail_at)
          IN  /\ SetBL(c.b)
              /\ SetAN(c.a)
              /\ ret' = [op |-> "cal_seg_and_zs", val |-> FALSE,
                         err |-> c.err]
       /\ UNCHANGED <<klines, nklu, bi_allow_sub_peak, step_calculation>>

NextCal == AddSingleKluShort \/ TryCreateFirstBiCall \/ CalSegAndZs

SpecCal == Init /\ [][NextCal]_vars

\* ------------------------------------------------------- configuration
\* Strings handed to the constructors: the accepted ones and some others.
FxCheckStrings == {"strict", "loss", "half", "totally", "Half", "invalid", ""}
SegAlgoStrings == {"chan", "1+1", "break", "Chan", "dyh", ""}

\* BiConfig::new that falls back to Half for an unknown bi_fx_check.
BiConfig_new_DefaultHalf(bi_algo, is_strict, fx_check, gap, end_peak, sub) ==
    LET m == IF fx_check = "strict" THEN "Strict"
             ELSE IF fx_check = "loss" THEN "Loss"
             ELSE IF fx_check = "totally" THEN "Totally"
             ELSE "Half"
    IN  Ok([bi_algo |-> bi_algo, is_strict |-> is_strict, bi_fx_check |-> m,
            gap_as_kl |-> gap, bi_end_is_peak |-> end_peak,
            bi_allow_sub_peak |-> sub])

BiConfig_new(bi_algo, is_strict, fx_check, gap, end_peak, sub) ==
    LET m == IF fx_check = "strict" THEN "Strict"
             ELSE IF fx_check = "loss" THEN "Loss"
             ELSE IF fx_check = "half" THEN "Half"
             ELSE IF fx_check = "totally" THEN "Totally"
             ELSE "none"
    IN  IF m = "none" THEN Err(PARA_ERROR)
        ELSE Ok([bi_algo |-> bi_algo, is_strict |-> is_strict,
                 bi_fx_check |-> m, gap_as_kl |-> gap,
                 bi_end_is_peak |-> end_peak,
                 bi_allow_sub_peak |-> sub])

get_seglist_instance(seg_algo, lv) ==
    IF seg_algo = "chan" THEN Ok([kind |-> "Chan", lv |-> lv])
    ELSE IF seg_algo = "1+1" THEN Ok([kind |-> "Dyh", lv |-> lv])
    ELSE IF seg_algo = "break" THEN Ok([kind |-> "Def", lv |-> lv])
    ELSE Err(PARA_ERROR)

\* KLineList::new: both segment lists are built first; an error of either
\* is returned and no KLineList is made.
KLineList_new(seg_algo) ==
    LET sl == get_seglist_instance(seg_algo, "Bi")
        ssl == get_seglist_instance(seg_algo, "Seg")
    IN  IF sl.err # 0 THEN Err(sl.err)
        ELSE IF ssl.err # 0 THEN Err(ssl.err)
        ELSE Ok([seg_list |-> sl.val, segseg_list |-> ssl.val,
                 klines |-> <<>>, step_calculation |-> FALSE])

\* The constructors applied to any arguments; the result and the arguments
\* are kept in ret.
BiConfigNewCall ==
    \E bi_algo \in {"normal", "custom"}, fx_check \in FxCheckStrings,
       is_strict \in BOOLEAN, gap \in BOOLEAN, end_is_peak_opt \in BOOLEAN,
       allow_sub_peak \in BOOLEAN :
       LET r == BiConfig_new(bi_algo, is_strict, fx_check, gap,
                             end_is_peak_opt, allow_sub_peak)
       IN  /\ ret' = [op |-> "BiConfig::new", val |-> r.val, err |-> r.err,
                      arg |-> <<bi_algo, is_strict, fx_check, gap,
                                end_is_peak_opt, allow_sub_peak>>]
           /\ UNCHANGED <<klines, nklu, bi_list, arena, free_klc_lst,
                          last_end, bi_allow_sub_peak, step_calculation,
                          seg_list, seg_bs_point_lst, bs_point_lst,
                          bs_point_history, seg_bs_point_history>>

KLineListNewCall ==
    \E seg_algo \in SegAlgoStrings :
       LET r == KLineList_new(seg_algo)
       IN  /\ ret' = [op |-> "KLineList::new", val |-> r.val, err |-> r.err,
                      arg |-> <<seg_algo>>]
           /\ UNCHANGED <<klines, nklu, bi_list, arena, free_klc_lst,
                          last_end, bi_allow_sub_peak, step_calculation,
                          seg_list, seg_bs_point_lst, bs_point_lst,
                          bs_point_history, seg_bs_point_history>>

NextConf == BiConfigNewCall \/ KLineListNewCall

SpecConf == Init /\ [][NextConf]_vars

\* ---------------------------------------------------------------- errors
\* The values of the enum ErrCode.
ErrCode == {0, 1} \cup (3..18) \cup {99} \cup (100..117) \cup {199}
           \cup (200..212) \cup {299}

Messages == {"", "Configuration error"}

ChanException_new(message, code) == [errcode |-> code, msg |-> message]

is_kldata_err(self) ==
    self.errcode > KL_ERR_BEGIN /\ self.errcode < KL_ERR_END

\* is_chan_err without the upper limit.
is_chan_err_NoUpper(self) == self.errcode > CHAN_ERR_BEGIN

is_chan_err(self) ==
    self.errcode > CHAN_ERR_BEGIN /\ self.errcode < CHAN_ERR_END

\* An exception built for any code, with the verdicts of both predicates.
ChanExceptionNewCall ==
    \E message \in Messages, code \in ErrCode :
       LET exc == ChanException_new(message, code)
       IN  /\ ret' = [op |-> "ChanException::new", val |-> exc, err |-> 0,
                      is_chan_err |-> is_chan_err(exc),
                      is_kldata_err |-> is_kldata_err(exc)]
           /\ UNCHANGED <<klines, nklu, bi_list, arena, free_klc_lst,
                          last_end, bi_allow_sub_peak, step_calculation,
                          seg_list, seg_bs_point_lst, bs_point_lst,
                          bs_point_history, seg_bs_point_history>>

SpecErr == Init /\ [][ChanExceptionNewCall]_vars

\* Bars that carry any time, pushed in any order of their times.
AddTimedKlu ==
    /\ nklu < MaxTimeBars
    /\ \E time \in 0..MaxTime, klu \in Bars :
          /\ klu.high <= MaxTimePrice
          /\ add_single_klu([klu EXCEPT !.time = time])

SpecTime == Init /\ [][AddTimedKlu]_vars

\* Direct calls of merge_bi and split_bi, as the unit tests of bi_list.rs
\* make them, on a stroke list built by the pushes.  idx1 <= idx2: the
\* splice range idx1..=idx2 is a range of the list.  The calls stop when
\* the stroke arena has MaxArena slots.
merge_bi_call(idx1, idx2) ==
    /\ LET r == merge_bi(BL, klines, idx1, idx2)
       IN  /\ SetBL(r.b)
           /\ ret' = Ret("merge_bi", r)
    /\ UNCHANGED <<klines, nklu, bi_allow_sub_peak, step_calculation,
                   seg_list, seg_bs_point_lst, bs_point_lst,
                   bs_point_history, seg_bs_point_history>>

MergeBiCall ==
    \E idx1 \in 0..Len(bi_list), idx2 \in 0..Len(bi_list) :
       idx1 <= idx2 /\ Len(arena) < MaxArena /\ merge_bi_call(idx1, idx2)

split_bi_call(bi_idx, split_klc_idx) ==
    /\ LET r == split_bi(BL, klines, bi_idx, split_klc_idx)
       IN  /\ SetBL(r.b)
           /\ ret' = Ret("split_bi", r)
    /\ UNCHANGED <<klines, nklu, bi_allow_sub_peak, step_calculation,
                   seg_list, seg_bs_point_lst, bs_point_lst,
                   bs_point_history, seg_bs_point_history>>

SplitBiCall ==
    \E bi_idx \in 0..Len(bi_list), split_klc_idx \in 0..Len(klines) :
       Len(arena) + 1 < MaxArena /\ split_bi_call(bi_idx, split_klc_idx)

\* The push, fed a run of at most MaxEditBars bars.
AddSingleKluEdit ==
    /\ nklu < MaxEditBars
    /\ AddSingleKlu

NextEdit == AddSingleKluEdit \/ TryCreateFirstBiCall \/ UpdateBiCall
            \/ TryAddVirtualBiCall \/ MergeBiCall \/ SplitBiCall

SpecEdit == Init /\ [][NextEdit]_vars

\* Direct calls of KLine::check_fx_valid on two candles of the chain, as
\* the unit test of kline.rs makes them, the first candle the older one.
\* The call leaves every candle as it is; ret keeps the arguments next to
\* the verdict.
check_fx_valid_call(i, j, method, for_virtual) ==
    /\ LET r == check_fx_valid(GetKl(klines, i), GetKl(klines, j), method,
                               for_virtual, klines)
       IN  ret' = [op |-> "check_fx_valid", val |-> r.val, err |-> r.err,
                   arg |-> <<i, j, method, for_virtual>>]
    /\ UNCHANGED <<klines, nklu, bi_list, arena, free_klc_lst, last_end,
                   bi_allow_sub_peak, step_calculation,
                   seg_list, seg_bs_point_lst, bs_point_lst,
                   bs_point_history, seg_bs_point_history>>

CheckFxValidCall ==
    \E i \in 0..(Len(klines) - 1), j \in 0..(Len(klines) - 1),
       method \in FxCheckMethod, for_virtual \in BOOLEAN :
       i < j /\ check_fx_valid_call(i, j, method, for_virtual)

\* The push, fed a run of at most MaxFxBars bars.
AddSingleKluFx ==
    /\ nklu < MaxFxBars
    /\ AddSingleKlu

NextFx == AddSingleKluFx \/ CheckFxValidCall

SpecFx == Init /\ [][NextFx]_vars

\* The unit test of kline.rs labels candles itself with KLine::set_fx
\* before it calls check_fx_valid.
FxType == {"Top", "Bottom", "Unknown"}

set_fx(k, fx_type) == [k EXCEPT !.fx = fx_type]

SetFxCall ==
    \E i \in 1..Len(klines), fx_type \in FxType :
       /\ klines' = [klines EXCEPT ![i] = set_fx(@, fx_type)]
       /\ ret' = [op |-> "set_fx", val |-> FALSE, err |-> 0]
       /\ UNCHANGED <<nklu, bi_list, arena, free_klc_lst, last_end,
                      bi_allow_sub_peak, step_calculation,
                      seg_list, seg_bs_point_lst, bs_point_lst,
                      bs_point_history, seg_bs_point_history>>

\* The push, fed at most MaxTestBars bars of prices up to MaxSetPrice.
AddSingleKluTest ==
    /\ nklu < MaxTestBars
    /\ \E klu \in {b \in Bars : b.high <= MaxSetPrice} : add_single_klu(klu)

NextFxTest == AddSingleKluTest \/ SetFxCall \/ CheckFxValidCall

SpecFxTest == Init /\ [][NextFxTest]_vars

\* The analyzer driven through add_single_klu only.
SpecPush == Init /\ [][AddSingleKlu]_vars

TypeOK ==
    /\ Len(klines) <= nklu
    /\ \A i \in 1..Len(klines) : klines[i].idx = i - 1
    /\ \A i \in 1..Len(bi_list) : bi_list[i] \in 0..(Len(arena) - 1)

\* ============================================================== claims
NBi == Len(bi_list)
BiAt(i) == arena[bi_list[i] + 1]
Called(op) == ret.op = op /\ ret.err = 0

\* C1: after any sequence of try_create_first_bi, update_bi and
\* try_add_virtual_bi calls, for every pair of consecutive strokes of bi_list
\* the end candle of the first is the begin candle of the second and their
\* directions differ.
C1_Alternate ==
    \A i \in 1..(NBi - 1) :
       /\ BiAt(i).end_klc_idx = BiAt(i + 1).begin_klc_idx
       /\ BiAt(i).dir # BiAt(i + 1).dir

\* C2: driven through add_single_klu only, once the chain holds a fractal
\* candle q and a later fractal candle c of the other type that satisfy the
\* stroke predicate, and both were handed to the stroke list, bi_list holds
\* at least one stroke.
C2_Pair ==
    \E q, c \in 0..(Len(klines) - 2) :
       /\ q < c
       /\ can_make_bi(klines, GetKl(klines, q), GetKl(klines, c)).val

C2_PushMakesStroke == C2_Pair => NBi >= 1

\* C3: with an empty stroke list, try_create_first_bi(c) for a fractal
\* candle c returns true and appends exactly one stroke q -> c when a
\* buffered candle q of the other fractal type passes the stroke predicate
\* with c; otherwise it returns false, buffers c and leaves bi_list empty.
C3_Match(c, j) ==
    LET q == GetKl(klines, free_klc_lst[j])
    IN  q.fx # c.fx /\ can_make_bi(klines, q, c).val

C3_FirstBi ==
    bi_list = <<>> =>
    \A h \in 0..(Len(klines) - 1) :
       LET c == GetKl(klines, h)
           r == try_create_first_bi(BL, klines, c)
       IN  c.fx # "Unknown" =>
           /\ r.err = 0
           /\ IF \E j \in 1..Len(free_klc_lst) : C3_Match(c, j)
              THEN /\ r.val
                   /\ Len(r.b.bi_list) = 1
                   /\ LET bi == GetBi(r.b, r.b.bi_list[1])
                      IN  /\ bi.end_klc_idx = c.idx
                          /\ \E j \in 1..Len(free_klc_lst) :
                                /\ C3_Match(c, j)
                                /\ bi.begin_klc_idx = free_klc_lst[j]
              ELSE /\ ~r.val
                   /\ r.b.free_klc_lst = Append(free_klc_lst, c.idx)
                   /\ r.b.bi_list = <<>>

\* The first stroke was just created from a buffered candle.
C3_Witness == Called("try_create_first_bi") /\ ret.val /\ NBi = 1

\* C4: whenever bi_list is non-empty, free_klc_lst is empty.
C4_BufferCleared == NBi > 0 => free_klc_lst = <<>>

\* C5: when the last stroke l is unconfirmed with end candle e and a candle
\* c of the other fractal type passes the stroke predicate with e,
\* update_bi_sure confirms l, appends e to l.sure_end and appends one
\* stroke e -> c.
C5_Confirm ==
    (NBi > 0 /\ ~BiAt(NBi).is_sure) =>
    \A h \in 0..(Len(klines) - 1) :
       LET c == GetKl(klines, h)
           l == BiAt(NBi)
           e == GetKl(klines, l.end_klc_idx)
           r == update_bi_sure(BL, klines, c, bi_allow_sub_peak)
       IN  (c.fx # e.fx /\ can_make_bi(klines, e, c).val) =>
           /\ r.err = 0 /\ r.val
           /\ Len(r.b.bi_list) = NBi + 1
           /\ SubSeq(r.b.bi_list, 1, NBi) = bi_list
           /\ LET l2 == GetBi(r.b, bi_list[NBi])
                  new == GetBi(r.b, r.b.bi_list[NBi + 1])
              IN  /\ l2.is_sure
                  /\ l2.sure_end = Append(l.sure_end, e.idx)
                  /\ l2.begin_klc_idx = l.begin_klc_idx
                  /\ l2.end_klc_idx = e.idx
                  /\ new.begin_klc_idx = e.idx
                  /\ new.end_klc_idx = c.idx

\* An unconfirmed stroke was confirmed by the stroke appended behind it.
C5_Witness ==
    /\ ret.op \in {"update_bi", "add_single_klu"} /\ ret.val /\ ret.err = 0
    /\ NBi >= 3
    /\ BiAt(NBi - 1).sure_end = <<BiAt(NBi - 1).end_klc_idx>>
    /\ BiAt(NBi).begin_klc_idx = BiAt(NBi - 1).end_klc_idx

\* C6: a stroke is confirmed only once a later stroke exists: the last
\* stroke of bi_list is unconfirmed.
C6_SureOnlyWithSuccessor ==
    \A i \in 1..NBi : BiAt(i).is_sure => i < NBi

\* C7: when the last stroke l is unconfirmed and a candle c arrives with
\* the fractal type of l's end e, update_bi_sure leaves the list unchanged
\* and returns false unless c strictly improves the endpoint in l's
\* direction and the stroke predicate holds for (l.begin, c).
C7_Improves(l, e, c) ==
    IF l.dir = "Up" THEN c.high > e.high ELSE c.low < e.low

C7_PeakOnlyIfBetter ==
    (NBi > 0 /\ ~BiAt(NBi).is_sure) =>
    \A h \in Offerable :
       LET c == GetKl(klines, h)
           l == BiAt(NBi)
           e == GetKl(klines, l.end_klc_idx)
           r == update_bi_sure(BL, klines, c, bi_allow_sub_peak)
       IN  (c.fx = e.fx
            /\ ~(C7_Improves(l, e, c)
                 /\ can_make_bi(klines, GetKl(klines, l.begin_klc_idx), c).val))
           => (r.b = BL /\ ~r.val /\ r.err = 0)

\* C8: with bi_allow_sub_peak = false, can_update_peak returns false
\* whenever bi_list has at least two strokes.
C8_NoSubPeakNoExtension ==
    (~bi_allow_sub_peak /\ NBi >= 2) =>
    \A h \in Offerable :
       ~can_update_peak(BL, klines, GetKl(klines, h), bi_allow_sub_peak).val

\* C9: after a peak extension replaced the end of the last stroke by c, the
\* stroke is unconfirmed, ends at c and has a sure_end history of length 1.
C9_AfterExtension ==
    (NBi > 0 /\ ~BiAt(NBi).is_sure) =>
    \A h \in Offerable :
       LET c == GetKl(klines, h)
           e == GetKl(klines, BiAt(NBi).end_klc_idx)
           r == update_bi_sure(BL, klines, c, bi_allow_sub_peak)
       IN  (c.fx = e.fx /\ r.val /\ r.err = 0) =>
           LET l2 == GetBi(r.b, bi_list[NBi])
           IN  /\ ~l2.is_sure
               /\ l2.end_klc_idx = c.idx
               /\ Len(l2.sure_end) = 1

\* C10: a confirmed stroke keeps its begin and end candles, stays in
\* bi_list and stays confirmed.
C10_Step ==
    \A i \in 1..NBi :
       BiAt(i).is_sure =>
          /\ i <= Len(bi_list')
          /\ bi_list'[i] = bi_list[i]
          /\ arena'[bi_list[i] + 1].is_sure
          /\ arena'[bi_list[i] + 1].begin_klc_idx = BiAt(i).begin_klc_idx
          /\ arena'[bi_list[i] + 1].end_klc_idx = BiAt(i).end_klc_idx

C10_SureIsFrozen == [][C10_Step]_vars

\* A confirmed stroke lies behind a stroke list that was updated since.
C10_Witness ==
    /\ NBi >= 2 /\ BiAt(1).is_sure
    /\ ret.op \in {"update_bi", "add_single_klu", "try_add_virtual_bi"}
    /\ ret.val /\ ret.err = 0

\* C11: when the last stroke is unconfirmed and the next bar is pushed
\* without confirming it, the stroke is removed: bi_list afterwards is
\* bi_list without its last entry.
C11_Step ==
    (/\ NBi > 0 /\ ~BiAt(NBi).is_sure
     /\ nklu' = nklu + 1
     /\ ~arena'[bi_list[NBi] + 1].is_sure)
    => bi_list' = SubSeq(bi_list, 1, NBi - 1)

C11_VirtualRevoked == [][C11_Step]_vars

\* C12: try_add_virtual_bi(c) appends an unconfirmed stroke e -> c exactly
\* when bi_list is non-empty, the last stroke is confirmed, its end candle
\* e has a known fractal and the stroke predicate passes for (e, c); in
\* every other case it returns false and leaves the stroke list unchanged.
\* c ranges over every candle of the chain, the tail included.
C12_VirtualBi ==
    \A h \in 0..(Len(klines) - 1) :
       LET c == GetKl(klines, h)
           r == try_add_virtual_bi(BL, klines, c)
           e == GetKl(klines, BiAt(NBi).end_klc_idx)
       IN  /\ r.err = 0
           /\ IF /\ NBi > 0
                 /\ BiAt(NBi).is_sure
                 /\ e.fx # "Unknown"
                 /\ can_make_bi(klines, e, c).val
              THEN /\ r.val
                   /\ Len(r.b.bi_list) = NBi + 1
                   /\ SubSeq(r.b.bi_list, 1, NBi) = bi_list
                   /\ LET new == GetBi(r.b, r.b.bi_list[NBi + 1])
                      IN  /\ ~new.is_sure
                          /\ new.begin_klc_idx = e.idx
                          /\ new.end_klc_idx = c.idx
                   /\ \A i \in 1..NBi :
                         /\ GetBi(r.b, bi_list[i]).is_sure = BiAt(i).is_sure
                         /\ GetBi(r.b, bi_list[i]).end_klc_idx
                               = BiAt(i).end_klc_idx
              ELSE ~r.val /\ r.b = BL

\* An unconfirmed stroke was just attached behind a confirmed one.
C12_Witness ==
    /\ Called("try_add_virtual_bi") /\ ret.val
    /\ NBi >= 2 /\ ~BiAt(NBi).is_sure /\ BiAt(NBi - 1).is_sure
    /\ BiAt(NBi).begin_klc_idx = BiAt(NBi - 1).end_klc_idx

\* C13: every confirmed stroke of bi_list passes check_fx_valid(begin
\* candle, end candle) under the configured bi_fx_check.
C13_FxValid ==
    \A i \in 1..NBi :
       BiAt(i).is_sure =>
          LET v == check_fx_valid(GetKl(klines, BiAt(i).begin_klc_idx),
                                  GetKl(klines, BiAt(i).end_klc_idx),
                                  bi_fx_check, FALSE, klines)
          IN  v.err = 0 /\ v.val

\* C14: every stroke of bi_list respects the price order of its direction
\* (begin Bottom: end.high > begin.low; begin Top: end.low < begin.high);
\* can_make_bi rejects every pair of candles that violates it, and Bi::new
\* and Bi::set fail with BiErr for such a pair.
C14_Ordered(a, b) ==
    IF a.fx = "Bottom" THEN b.high > a.low
    ELSE IF a.fx = "Top" THEN b.low < a.high
    ELSE FALSE

C14_PriceOrder ==
    /\ \A i \in 1..NBi :
          C14_Ordered(GetKl(klines, BiAt(i).begin_klc_idx),
                      GetKl(klines, BiAt(i).end_klc_idx))
    /\ \A g, h \in 0..(Len(klines) - 1) :
          LET a == GetKl(klines, g)
              b == GetKl(klines, h)
          IN  ~C14_Ordered(a, b) =>
                 /\ ~can_make_bi(klines, a, b).val
                 /\ Bi_new(a, b, NBi, TRUE, klines).err = BI_ERR
                 /\ \A i \in 1..NBi : Bi_set(BiAt(i), a, b, klines).err = BI_ERR

\* A stroke list with three strokes, the last one appended by an update.
C14_Witness ==
    /\ NBi >= 3 /\ ret.val /\ ret.err = 0
    /\ ret.op \in {"update_bi", "try_add_virtual_bi"}

\* C15: can_make_bi(a, b) is false when a candle strictly between a and b
\* makes a stronger extremum: for a Bottom and b Top a high above b.high or
\* a low below a.low, for a Top and b Bottom a low below b.low or a high
\* above a.high.
C15_Stronger(a, b, m) ==
    IF a.fx = "Bottom" THEN m.high > b.high \/ m.low < a.low
    ELSE m.low < b.low \/ m.high > a.high

C15_NoStrongerBetween ==
    \A g, h \in 0..(Len(klines) - 1) :
       LET a == GetKl(klines, g)
           b == GetKl(klines, h)
       IN  (/\ g < h
            /\ a.fx # "Unknown" /\ b.fx # "Unknown" /\ a.fx # b.fx
            /\ \E j \in (g + 1)..(h - 1) :
                  C15_Stronger(a, b, GetKl(klines, j)))
           => ~can_make_bi(klines, a, b).val

\* C16: with bi_end_is_peak = true, no stroke of bi_list has an end candle
\* that a candle strictly between its begin and end surpasses in the
\* stroke's direction (a higher high for Up, a lower low for Down).
C16_EndIsPeak ==
    bi_end_is_peak =>
    \A i \in 1..NBi :
       LET e == GetKl(klines, BiAt(i).end_klc_idx)
       IN  \A j \in (BiAt(i).begin_klc_idx + 1)..(BiAt(i).end_klc_idx - 1) :
              IF BiAt(i).dir = "Up"
              THEN GetKl(klines, j).high <= e.high
              ELSE GetKl(klines, j).low >= e.low

\* C17: can_make_bi accepts (a, b) only if at least one candle lies between
\* them, where with gap_as_kl = true a price gap between adjacent candles
\* counts as a candle: two adjacent candles whose price ranges touch or
\* overlap never pass can_make_bi, and without gap_as_kl no two adjacent
\* candles do.
C17_PriceGap(a, b) == a.high < b.low \/ b.high < a.low

C17_MinSpan ==
    \A g \in 0..(Len(klines) - 2) :
       LET a == GetKl(klines, g)
           b == GetKl(klines, g + 1)
       IN  (gap_as_kl => ~C17_PriceGap(a, b))
           => ~can_make_bi(klines, a, b).val

\* C18: a call of add_single_klu that returns an error leaves the unit
\* arena, the candle chain and the stroke list as they were before it.
C18_Step ==
    (ret'.op = "add_single_klu" /\ ret'.err # 0) =>
       /\ nklu' = nklu
       /\ klines' = klines
       /\ bi_list' = bi_list /\ arena' = arena
       /\ free_klc_lst' = free_klc_lst /\ last_end' = last_end

C18_PushAtomic == [][C18_Step]_vars

\* C19: when Bi::set fails its check, in a stroke update or called on the
\* last stroke, the error is returned and every stroke keeps its begin, end,
\* direction, is_sure and sure_end, and bi_list is unchanged.
C19_Step ==
    (ret'.op \in {"set", "update_bi", "try_add_virtual_bi",
                  "try_create_first_bi"} /\ ret'.err = BI_ERR) =>
       /\ bi_list' = bi_list
       /\ arena' = arena

C19_SetRejected == [][C19_Step]_vars

\* C20: a bar with high < low or with a price <= 0 is rejected: the push
\* of such a bar returns an error and leaves the unit arena and the candle
\* chain (klines, every candle's high and low) as they were.
C20_Invalid(high, low) == high < low \/ high <= 0 \/ low <= 0

C20_Step ==
    \A high \in 0..MaxRawPrice, low \in 0..MaxRawPrice :
       (/\ C20_Invalid(high, low)
        /\ KLineUnit_new(0, high, low).err = 0
        /\ add_single_klu(KLineUnit_new(0, high, low).val))
       => (ret'.err # 0 /\ nklu' = nklu /\ klines' = klines)

C20_BadBarRejected == [][C20_Step]_vars

\* C23: after every push no two adjacent candles are in an inclusion
\* relation: neither of klines[i], klines[i+1] has a [low, high] range that
\* contains the other's.
C23_Contains(a, b) == a.high >= b.high /\ a.low <= b.low

C23_NoInclusion ==
    \A i \in 1..(Len(klines) - 1) :
       /\ ~C23_Contains(klines[i], klines[i + 1])
       /\ ~C23_Contains(klines[i + 1], klines[i])

\* C24: merging a bar B into the tail candle T follows the directional
\* rule: for T of direction Up the merged high is max(T.high, B.high) and
\* the merged low is max(T.low, B.low); for Down both are the minimum; and
\* T.time_end becomes B.time.
C24_Merged(t, b) ==
    IF t.dir = "Up"
    THEN [high |-> Max2(t.high, b.high), low |-> Max2(t.low, b.low)]
    ELSE [high |-> Min2(t.high, b.high), low |-> Min2(t.low, b.low)]

C24_DirectionalMerge ==
    klines # <<>> =>
       \A b \in Bars :
          LET t == klines[Len(klines)]
              m == add_unit(t, b)
          IN  (C23_Contains(t, b) \/ C23_Contains(b, t)) =>
                 /\ m.high = C24_Merged(t, b).high
                 /\ m.low = C24_Merged(t, b).low
                 /\ m.time_end = b.time

\* C25: in every reachable state a candle tagged Top has a high strictly
\* above the highs of its predecessor and its successor, and a candle tagged
\* Bottom has a low strictly below the lows of both neighbours.
C25_FxHolds ==
    \A i \in 1..Len(klines) :
       LET m == klines[i]
       IN  /\ m.fx = "Top" =>
                /\ HasKl(klines, m.pre_kl) /\ HasKl(klines, m.next_kl)
                /\ m.high > GetKl(klines, m.pre_kl).high
                /\ m.high > GetKl(klines, m.next_kl).high
           /\ m.fx = "Bottom" =>
                /\ HasKl(klines, m.pre_kl) /\ HasKl(klines, m.next_kl)
                /\ m.low < GetKl(klines, m.pre_kl).low
                /\ m.low < GetKl(klines, m.next_kl).low

\* C26: a fractal is assigned only to the middle of the last three candles
\* and only by a push that appends a candle: a candle's fractal changes only
\* if it was the tail and a candle was appended behind it; with fewer than
\* three candles no candle has a fractal; the first and the newest candle
\* have fractal Unknown; the first bar yields one candle with that bar's high
\* and low.
C26_Step ==
    /\ \A i \in 1..Len(klines) :
          klines'[i].fx # klines[i].fx =>
             /\ Len(klines') = Len(klines) + 1
             /\ i = Len(klines)
             /\ Len(klines') >= 3
    /\ Len(klines') < 3 =>
          \A i \in 1..Len(klines') : klines'[i].fx = "Unknown"
    /\ klines' # <<>> =>
          /\ klines'[1].fx = "Unknown"
          /\ klines'[Len(klines')].fx = "Unknown"
    /\ \A klu \in Bars :
          (klines = <<>> /\ add_single_klu(klu)) =>
             /\ Len(klines') = 1
             /\ klines'[1].high = klu.high
             /\ klines'[1].low = klu.low

C26_FxOnlyMiddle == [][C26_Step]_vars

C26_Witness ==
    /\ Len(klines) >= 3
    /\ klines[Len(klines) - 1].fx = "Top"
    /\ ret.op = "add_single_klu"

\* C21: a bar whose time is earlier than the time of the last accepted bar
\* (the time_end of the tail candle) is rejected by the push with an error
\* and leaves the candle chain as it was.
C21_Step ==
    \A time \in 0..MaxTime, klu \in Bars :
       (/\ klines # <<>>
        /\ time < klines[Len(klines)].time_end
        /\ add_single_klu([klu EXCEPT !.time = time]))
       => (ret'.err # 0 /\ klines' = klines)

C21_BackwardRejected == [][C21_Step]_vars

\* C22: after every push the candle chain is strictly ordered by time_end
\* and every candle has high >= low.
C22_Ordered ==
    /\ \A i \in 1..(Len(klines) - 1) :
          klines[i].time_end < klines[i + 1].time_end
    /\ \A i \in 1..Len(klines) : klines[i].high >= klines[i].low

\* C27: pushing a no-op bar, one with the time of the last pushed bar and
\* prices the tail candle already covers (as the last pushed bar's are),
\* changes neither the length of klines, bi_list, bs_point_history or
\* seg_bs_point_history nor any stroke's is_sure flag.
C27_Step ==
    \A klu \in Bars :
       (/\ klines # <<>>
        /\ klu.time = klines[Len(klines)].time_end
        /\ C23_Contains(klines[Len(klines)], klu)
        /\ add_single_klu(klu))
       => /\ Len(klines') = Len(klines)
          /\ Len(bi_list') = Len(bi_list)
          /\ Len(bs_point_history') = Len(bs_point_history)
          /\ Len(seg_bs_point_history') = Len(seg_bs_point_history)
          /\ \A i \in 1..Len(bi_list) :
                arena'[bi_list'[i] + 1].is_sure = arena[bi_list[i] + 1].is_sure

C27_NoOpBar == [][C27_Step]_vars

C27_Witness ==
    /\ ret.op = "add_single_klu"
    /\ nklu = 2
    /\ Len(klines) = 1
    /\ klines[1].high = klines[1].low

\* C28: with step_calculation = false a push never runs cal_seg_and_zs and
\* adds no virtual stroke: the segment and pivot lists, both buy/sell-point
\* lists and both history logs are unchanged, and a stroke the push appends
\* is a confirmed one.
C28_Step ==
    (~step_calculation /\ ret'.op = "add_single_klu") =>
       /\ UNCHANGED <<seg_list, seg_bs_point_lst, bs_point_lst,
                      bs_point_history, seg_bs_point_history,
                      bi_allow_sub_peak, step_calculation>>
       /\ \A i \in (Len(bi_list) + 1)..Len(bi_list') :
             arena'[bi_list'[i] + 1].is_sure

C28_PushFrame == [][C28_Step]_vars

C28_Witness ==
    /\ ~step_calculation
    /\ ret = [op |-> "add_single_klu", val |-> TRUE, err |-> 0]
    /\ bi_list # <<>>

\* C29: every successful run of cal_seg_and_zs appends the current
\* buy/sell-point sets, as they are after both lists were recomputed, to the
\* history logs exactly once; no step shortens a history log.
C29_Step ==
    /\ (ret'.op = "cal_seg_and_zs" /\ ret'.err = 0) =>
          /\ bs_point_lst' # bs_point_lst
          /\ seg_bs_point_lst' # seg_bs_point_lst
          /\ bs_point_history' = Append(bs_point_history, bs_point_lst')
          /\ seg_bs_point_history' =
                Append(seg_bs_point_history, seg_bs_point_lst')
    /\ Len(bs_point_history') >= Len(bs_point_history)
    /\ SubSeq(bs_point_history', 1, Len(bs_point_history))
          = bs_point_history
    /\ Len(seg_bs_point_history') >= Len(seg_bs_point_history)
    /\ SubSeq(seg_bs_point_history', 1, Len(seg_bs_point_history))
          = seg_bs_point_history

C29_HistoryAppended == [][C29_Step]_vars

C29_Witness ==
    /\ ret = [op |-> "cal_seg_and_zs", val |-> FALSE, err |-> 0]
    /\ Len(bs_point_history) = 2
    /\ bi_list # <<>>

\* C30: configuration errors are raised at construction.  BiConfig::new
\* fails with ParaError (5) for every bi_fx_check string other than strict,
\* loss, half, totally and for these four returns a config with the matching
\* typed method and the other options as given; KLineList::new fails with
\* ParaError for every seg_algo other than chan, 1+1, break; a failing call
\* returns no object.
C30_ConfigErrors ==
    /\ ret.op = "BiConfig::new" =>
          IF ret.arg[3] \in {"strict", "loss", "half", "totally"}
          THEN /\ ret.err = 0
               /\ ret.val.bi_fx_check =
                     (CASE ret.arg[3] = "strict" -> "Strict"
                        [] ret.arg[3] = "loss" -> "Loss"
                        [] ret.arg[3] = "half" -> "Half"
                        [] ret.arg[3] = "totally" -> "Totally")
               /\ ret.val.bi_algo = ret.arg[1]
               /\ ret.val.is_strict = ret.arg[2]
               /\ ret.val.gap_as_kl = ret.arg[4]
               /\ ret.val.bi_end_is_peak = ret.arg[5]
               /\ ret.val.bi_allow_sub_peak = ret.arg[6]
          ELSE ret.err = PARA_ERROR /\ ret.val = FALSE
    /\ ret.op = "KLineList::new" =>
          IF ret.arg[1] \in {"chan", "1+1", "break"}
          THEN ret.err = 0 /\ ret.val.klines = <<>>
          ELSE ret.err = PARA_ERROR /\ ret.val = FALSE

C30_Witness ==
    /\ ret.op = "BiConfig::new"
    /\ ret.arg[3] = "invalid"
    /\ ret.err = PARA_ERROR

\* C31 as stated: for every ErrCode value is_chan_err is true exactly for
\* the codes of the structural band 0..99 and is_kldata_err exactly for the
\* codes of the data band 200..299, and the two are never both true.
C31_Bands ==
    ret.op = "ChanException::new" =>
       /\ ret.is_chan_err <=> (ret.val.errcode \in 0..99)
       /\ ret.is_kldata_err <=> (ret.val.errcode \in 200..299)
       /\ ~(ret.is_chan_err /\ ret.is_kldata_err)

\* C31 amended: the same for every ErrCode value other than the four band
\* markers 0, 99, 200, 299; for the markers both predicates are false.
C31_BandsWithoutMarkers ==
    ret.op = "ChanException::new" =>
       /\ ret.val.errcode \notin {0, 99, 200, 299} =>
             /\ ret.is_chan_err <=> (ret.val.errcode \in 0..99)
             /\ ret.is_kldata_err <=> (ret.val.errcode \in 200..299)
       /\ ret.val.errcode \in {0, 99, 200, 299} =>
             (~ret.is_chan_err /\ ~ret.is_kldata_err)
       /\ ~(ret.is_chan_err /\ ret.is_kldata_err)

C31_Witness ==
    /\ ret.op = "ChanException::new"
    /\ ret.val.errcode = 17
    /\ ret.is_chan_err
    /\ ~ret.is_kldata_err

\* C32: merge_bi(i, j) on two strokes i < j of a stroke list built by
\* add_new_bi (no stroke merged or split before) succeeds, puts one stroke
\* from i's begin candle to j's end candle in the place of strokes i..j,
\* and shortens the list by j - i.
C32_Built == \A s \in 1..Len(arena) : arena[s] # Removed /\ arena[s].is_sure

C32_Step ==
    \A i \in 0..(Len(bi_list) - 1), j \in 0..(Len(bi_list) - 1) :
       (i < j /\ C32_Built /\ merge_bi_call(i, j)) =>
          /\ ret'.err = 0
          /\ Len(bi_list') = Len(bi_list) - (j - i)
          /\ arena'[bi_list'[i + 1] + 1].begin_klc_idx
                 = BiAt(i + 1).begin_klc_idx
          /\ arena'[bi_list'[i + 1] + 1].end_klc_idx
                 = BiAt(j + 1).end_klc_idx

C32_MergeSucceeds == [][C32_Step]_vars

\* C33: split_bi(i, K) with a candle K strictly between the begin and the
\* end candle of stroke i, whatever K's fractal, succeeds, puts the strokes
\* begin -> K and K -> end in the place of stroke i, and lengthens the list
\* by one.
C33_Step ==
    \A i \in 0..(Len(bi_list) - 1), k \in 0..(Len(klines) - 1) :
       (/\ BiAt(i + 1).begin_klc_idx < k
        /\ k < BiAt(i + 1).end_klc_idx
        /\ split_bi_call(i, k)) =>
          /\ ret'.err = 0
          /\ Len(bi_list') = Len(bi_list) + 1
          /\ arena'[bi_list'[i + 1] + 1].begin_klc_idx
                 = BiAt(i + 1).begin_klc_idx
          /\ arena'[bi_list'[i + 1] + 1].end_klc_idx = k
          /\ arena'[bi_list'[i + 2] + 1].begin_klc_idx = k
          /\ arena'[bi_list'[i + 2] + 1].end_klc_idx
                 = BiAt(i + 1).end_klc_idx

C33_SplitSucceeds == [][C33_Step]_vars

\* C34: whenever check_fx_valid(A, B, Totally) returns true, the strict
\* check returns true on the same inputs, and the low of the Top candle of
\* the pair lies above the high of the Bottom candle.
C34_TotallyImpliesStrict ==
    (/\ ret.op = "check_fx_valid"
     /\ ret.arg[3] = "Totally"
     /\ ret.err = 0
     /\ ret.val) =>
       LET a == GetKl(klines, ret.arg[1])
           b == GetKl(klines, ret.arg[2])
           s == check_fx_valid(a, b, "Strict", ret.arg[4], klines)
       IN  /\ s.err = 0
           /\ s.val
           /\ IF a.fx = "Top" THEN a.low > b.high ELSE b.low > a.high

\* C35: check_fx_valid called on a Top candle and a Bottom candle further
\* along the linked chain returns a boolean verdict and no error, also
\* when the Top candle is the first candle of the chain and the Bottom
\* candle the last one.
C35_TopBottomVerdict ==
    (/\ ret.op = "check_fx_valid"
     /\ GetKl(klines, ret.arg[1]).fx = "Top"
     /\ GetKl(klines, ret.arg[2]).fx = "Bottom"
     /\ ret.arg[1] < ret.arg[2]) =>
       ret.err = 0 /\ ret.val \in BOOLEAN

\* C36: every push leaves the candle chain at its length or one candle
\* longer, and after it candle i carries idx i, is linked forward to
\* candle i + 1 and back from it, the first candle has no pre_kl and the
\* last candle no next_kl.
C36_Chain ==
    \A i \in 1..Len(klines) :
       /\ klines[i].idx = i - 1
       /\ klines[i].pre_kl = (IF i = 1 THEN NoIdx ELSE i - 2)
       /\ klines[i].next_kl = (IF i = Len(klines) THEN NoIdx ELSE i)

C36_Step ==
    /\ Len(klines') \in {Len(klines), Len(klines) + 1}
    /\ C36_Chain'

C36_ChainAppendOnly == [][C36_Step]_vars

C36_Witness ==
    /\ ret.op = "add_single_klu"
    /\ Len(klines) = 4
    /\ nklu > 4
    /\ C36_Chain

\* C37: after any sequence of pushes, stroke appends, update_bi, merge_bi
\* and split_bi, every handle in bi_list addresses a live arena entry, and
\* the stroke at position p carries idx p, a pre link to the stroke at
\* p - 1 (none at position 0) and a next link to the stroke at p + 1 (none
\* at the last position).
C37_Consistent ==
    \A p \in 1..Len(bi_list) :
       /\ ArenaGet(arena, bi_list[p])
       /\ BiAt(p).idx = p - 1
       /\ BiAt(p).pre = (IF p = 1 THEN NoIdx ELSE bi_list[p - 1])
       /\ BiAt(p).next = (IF p = Len(bi_list) THEN NoIdx ELSE bi_list[p + 1])

\* C38: a call of update_bi that returns without an error returns true
\* exactly when it changed the stroke list or a stroke, and when it returns
\* false the stroke list, every stroke and the buffer of free candles are
\* as before the call.
C38_Step ==
    (ret'.op = "update_bi" /\ ret'.err = 0) =>
       /\ ret'.val <=> (<<bi_list, arena>>' # <<bi_list, arena>>)
       /\ ~ret'.val => UNCHANGED <<bi_list, arena, free_klc_lst>>

C38_TrueIffChanged == [][C38_Step]_vars

C38_Witness ==
    /\ ret.op = "update_bi"
    /\ ret.err = 0
    /\ ret.val
    /\ Len(bi_list) >= 2
    /\ ~LastBi(BL).is_sure

\* C39: in every reachable state with a non-empty stroke list, last_end is
\* the end candle of the last stroke of bi_list.
C39_LastEndIsTail ==
    bi_list # <<>> => last_end = LastBi(BL).end_klc_idx

\* C40: on the same two candles, not for a virtual stroke, a true verdict
\* of check_fx_valid under Strict implies a true verdict under Half, and a
\* true verdict under Half implies a true verdict under Loss.
C40_Verdict(method) ==
    LET r == check_fx_valid(GetKl(klines, ret.arg[1]),
                            GetKl(klines, ret.arg[2]), method, FALSE, klines)
    IN  r.err = 0 /\ r.val

C40_Ordered ==
    (/\ ret.op = "check_fx_valid"
     /\ ~ret.arg[4]
     /\ ret.err = 0
     /\ ret.val) =>
       /\ ret.arg[3] = "Strict" => C40_Verdict("Half")
       /\ ret.arg[3] = "Half" => C40_Verdict("Loss")

C40_Witness ==
    /\ ret.op = "check_fx_valid"
    /\ ~ret.arg[4]
    /\ ret.arg[3] = "Half"
    /\ ret.err = 0
    /\ ret.val
    /\ GetKl(klines, ret.arg[1]).fx = "Bottom"
    /\ ~C40_Verdict("Strict")

====
